---- MODULE Spec2Model ----
(***************************************************************************)
(* Model of AlertNotificationSystem (src/alert_notification_system.py):   *)
(* the subscription set, the eligibility filter should_notify_subscriber, *)
(* the five per-subscriber channel senders, the dispatch loop             *)
(* process_alert_notifications, the websocket connection set with its     *)
(* handlers and broadcast, and the polling loop monitor_and_notify.       *)
(*                                                                         *)
(* Conventions                                                             *)
(*  - A Python value that may be None is a sequence of length 0 or 1:     *)
(*    <<>> is None, <<v>> is the value v.  A Python list is a set inside  *)
(*    such a sequence (only membership and emptiness are read).           *)
(*  - Text is a sequence of one-character strings, so that lower() and    *)
(*    the substring test `a in b` are computed.                           *)
(*  - confidence_score and min_confidence are in hundredths (0.95 = 95).  *)
(*  - The clock `now` counts minutes since the epoch: time.time() // 3600 *)
(*    is now \div 60 and datetime.now().strftime('%H:%M') is the minute   *)
(*    of the day now % 1440 (zero-padded HH:MM strings compare as their   *)
(*    minute counts; local time is taken as UTC).                         *)
(*    The polling loop has its own clock, in seconds (monitor.clock).     *)
(*  - Distances are in kilometres between points of the equator whose     *)
(*    longitude is a multiple of 0.05 degree (one step is about 5.5 km).  *)
(***************************************************************************)
EXTENDS Integers, Sequences, FiniteSets, TLC

\* ------------------------------------------------------------- bounds
\* Largest number of dispatch passes of one run.
MaxDispatches == 2
\* Largest number of clock advances of one run.
MaxTicks == 1
\* Minutes the clock advances in one step.
TickMinutes == 30
\* Last second of the clock of the monitoring loop.
MaxClock == 70
\* Largest number of seconds between the loop's reading of the clock and
\* the answer of the alert source.
MaxFetchDelay == 1
\* Largest number of websocket broadcasts of one run.
MaxBroadcasts == 2
\* Longest formatted message handed to the SMS sender.
MaxMessageLen == 163
\* Largest number of counted sends of the senders called on their own.
MaxSenderCalls == 1

\* ------------------------------------------------- program constants
MinutesPerHour == 60
MinutesPerDay == 1440
\* AlertSubscription defaults.
DefaultRadiusKm == 100
DefaultMinConfidence == 70
DefaultMaxPerHour == 10
\* Defaults of the quiet-hours window: '22:00' and '06:00'.
DefaultQuietStart == 1320
DefaultQuietEnd == 360
\* Quiet-hours safety valve (0.95).
OverrideConfidence == 95
\* Kilometres per 0.05 degree of longitude on the equator, rounded up.
KmPerStep == 6
\* What float('inf') stands for: larger than every radius of the model.
Infinity == 1000000
\* The monitoring loop: seconds between two fetches, seconds of one sleep,
\* and the arguments hours=1 (in seconds) and min_confidence=0.3 of the
\* fetch.
PollSeconds == 30
SleepSeconds == 10
FetchWindowSeconds == 3600
FetchMinConfidence == 30
\* Length the SMS sender cuts the formatted message at.
SmsLimit == 160

\* ------------------------------------------------------------ helpers
None == <<>>
Some(v) == <<v>>
IsNone(x) == x = <<>>

\* Python truthiness of an optional list / dict / string.
TruthyList(x) == x # <<>> /\ x[1] # {}
TruthyText(x) == x # <<>> /\ x[1] # <<>>
TruthyDict(x) == x # <<>> /\ DOMAIN x[1] # {}
\* dict.get(key, default)
DictGet(d, key, default) == IF key \in DOMAIN d THEN d[key] ELSE default

Abs(n) == IF n < 0 THEN -n ELSE n

\* str.lower() on the model's alphabet.
LowerChar(c) ==
    CASE c = "M" -> "m"
      [] c = "U" -> "u"
      [] c = "B" -> "b"
      [] c = "T" -> "t"
      [] c = "K" -> "k"
      [] OTHER -> c
Lower(s) == [i \in DOMAIN s |-> LowerChar(s[i])]

\* Python `a in b` for strings: a is a contiguous part of b.
IsSubstring(a, b) ==
    \E i \in 0..(Len(b) - Len(a)) : SubSeq(b, i + 1, i + Len(a)) = a

\* dict.get(key, default) on the urgency ranking.
UrgencyRank(u, default) ==
    CASE u = "low" -> 0
      [] u = "medium" -> 1
      [] u = "high" -> 2
      [] u = "critical" -> 3
      [] OTHER -> default

\* ------------------------------------------------------------- alerts
\* SimpleDisasterAlert carries only the first group of attributes; an
\* "advanced" alert also carries the attributes should_notify_subscriber,
\* format_alert_message and process_alert_notifications look for.
SimpleAttrs == {"disaster_type", "confidence_score", "location"}
AdvancedAttrs == SimpleAttrs \cup
    {"urgency_level", "alert_level", "latitude", "longitude",
     "state", "country", "formatted_address"}

HasAttr(alert, name) ==
    IF alert.kind = "simple" THEN name \in SimpleAttrs ELSE name \in AdvancedAttrs

\* ---------------------------------------------------------- geography
\* calculate_distance_km: infinite when a coordinate is missing, else the
\* geodesic distance (points of the model lie on the equator).
calculate_distance_km(lat1, lon1, lat2, lon2) ==
    IF IsNone(lat1) \/ IsNone(lon1) \/ IsNone(lat2) \/ IsNone(lon2)
    THEN Infinity
    ELSE KmPerStep * (Abs(lat1[1] - lat2[1]) + Abs(lon1[1] - lon2[1]))

\* get_alert_coordinates: the alert's own attributes when it has both
\* (whatever their value), else the geocoded location; alert.geocode is
\* what geolocator.geocode(alert.location) answers (None also stands for
\* a geocoder that raised, which the except clause turns into None, None).
get_alert_coordinates(alert) ==
    IF HasAttr(alert, "latitude") /\ HasAttr(alert, "longitude")
    THEN [lat |-> alert.latitude, lon |-> alert.longitude]
    ELSE IF alert.location # <<>> /\ ~IsNone(alert.geocode)
         THEN [lat |-> Some(alert.geocode[1].lat), lon |-> Some(alert.geocode[1].lon)]
         ELSE [lat |-> None, lon |-> None]

\* -------------------------------------------------- eligibility filter
\* Urgency of the alert: derived from confidence, overridden by the
\* attribute when the alert has one.
AlertUrgency(alert) ==
    IF HasAttr(alert, "urgency_level") THEN alert.urgency_level
    ELSE IF alert.confidence_score > 90 THEN "high"
    ELSE IF alert.confidence_score > 70 THEN "medium"
    ELSE "low"

AlertLevel(alert) ==
    IF HasAttr(alert, "alert_level") THEN alert.alert_level
    ELSE IF alert.confidence_score > 90 THEN "emergency"
    ELSE IF alert.confidence_score > 70 THEN "alert"
    ELSE "warning"

\* (mutant of UrgencyRejects: an alert at the minimum urgency is rejected)
MutUrgencyRejectsAtMinimum(sub, alert) ==
    UrgencyRank(AlertUrgency(alert), 0) <= UrgencyRank(sub.min_urgency, 1)

UrgencyRejects(sub, alert) ==
    UrgencyRank(AlertUrgency(alert), 0) < UrgencyRank(sub.min_urgency, 1)

DisasterTypeRejects(sub, alert) ==
    TruthyList(sub.disaster_types) /\ alert.disaster_type \notin sub.disaster_types[1]

\* (mutant of ProximityRejects: an alert without coordinates is at an
\* infinite distance and rejected)
MutProximityFailClosed(sub, alert) ==
    /\ ~IsNone(sub.latitude)
    /\ ~IsNone(sub.longitude)
    /\ LET c == get_alert_coordinates(alert)
       IN  calculate_distance_km(sub.latitude, sub.longitude, c.lat, c.lon)
             > sub.alert_radius_km

ProximityRejects(sub, alert) ==
    /\ ~IsNone(sub.latitude)
    /\ ~IsNone(sub.longitude)
    /\ LET c == get_alert_coordinates(alert)
       IN  /\ ~IsNone(c.lat)
           /\ ~IsNone(c.lon)
           /\ calculate_distance_km(sub.latitude, sub.longitude, c.lat, c.lon)
                > sub.alert_radius_km

CityRejects(sub, alert) ==
    /\ TruthyText(sub.city)
    /\ alert.location # <<>>
    /\ ~IsSubstring(Lower(sub.city[1]), Lower(alert.location))

StateRejects(sub, alert) ==
    /\ TruthyText(sub.state)
    /\ HasAttr(alert, "state")
    /\ TruthyText(alert.state)
    /\ Lower(sub.state[1]) # Lower(alert.state[1])

CountryRejects(sub, alert) ==
    /\ TruthyText(sub.country)
    /\ HasAttr(alert, "country")
    /\ TruthyText(alert.country)
    /\ Lower(sub.country[1]) # Lower(alert.country[1])

AlertLevelRejects(sub, alert) ==
    TruthyList(sub.alert_levels) /\ AlertLevel(alert) \notin sub.alert_levels[1]

\* The hour of a time stamp: t // 3600 on seconds.
HourOf(t) == t \div MinutesPerHour
\* datetime.now().strftime('%H:%M'), as the minute of the day.
TimeOfDay(t) == t % MinutesPerDay

\* (mutant of RateLimitRejects: the counter may exceed the limit by one)
MutRateLimitOffByOne(sub, t) ==
    HourOf(t) = HourOf(sub.last_notified) /\ sub.hourly_count > sub.max_per_hour

\* Rate limit: in the hour of last_notified the counter is compared with
\* max_per_hour; in any other hour the counter is reset.
RateLimitRejects(sub, t) ==
    HourOf(t) = HourOf(sub.last_notified) /\ sub.hourly_count >= sub.max_per_hour

HourlyCountAfterCheck(sub, t) ==
    IF HourOf(t) = HourOf(sub.last_notified) THEN sub.hourly_count ELSE 0

\* (mutant of InQuietRange: a range test that does not wrap midnight)
MutQuietRangeNoWrap(start, end, cur) == start <= cur /\ cur <= end

\* The time range test of the quiet-hours check.
InQuietRange(start, end, cur) == start <= cur \/ cur <= end

\* (mutant of QuietHoursRejects: emergency_override is not read)
MutQuietHoursIgnoresOverride(sub, alert, t) ==
    /\ TruthyDict(sub.quiet_hours)
    /\ InQuietRange(DictGet(sub.quiet_hours[1], "start", DefaultQuietStart),
                    DictGet(sub.quiet_hours[1], "end", DefaultQuietEnd),
                    TimeOfDay(t))
    /\ alert.confidence_score < OverrideConfidence

QuietHoursRejects(sub, alert, t) ==
    /\ TruthyDict(sub.quiet_hours)
    /\ ~sub.emergency_override
    /\ InQuietRange(DictGet(sub.quiet_hours[1], "start", DefaultQuietStart),
                    DictGet(sub.quiet_hours[1], "end", DefaultQuietEnd),
                    TimeOfDay(t))
    /\ alert.confidence_score < OverrideConfidence

\* (mutant of EarlyReject: is_active is not tested)
MutEarlyRejectNoActive(sub, alert) ==
    IF alert.confidence_score < sub.min_confidence THEN "confidence"
    ELSE IF UrgencyRejects(sub, alert) THEN "urgency"
    ELSE IF DisasterTypeRejects(sub, alert) THEN "disaster_type"
    ELSE IF ProximityRejects(sub, alert) THEN "proximity"
    ELSE IF CityRejects(sub, alert) THEN "city"
    ELSE IF StateRejects(sub, alert) THEN "state"
    ELSE IF CountryRejects(sub, alert) THEN "country"
    ELSE IF AlertLevelRejects(sub, alert) THEN "alert_level"
    ELSE ""

\* The predicates before the rate limit, in the order of the code; the
\* name of the first one that rejects, "" when none does.
EarlyReject(sub, alert) ==
    IF ~sub.is_active THEN "inactive"
    ELSE IF alert.confidence_score < sub.min_confidence THEN "confidence"
    ELSE IF UrgencyRejects(sub, alert) THEN "urgency"
    ELSE IF DisasterTypeRejects(sub, alert) THEN "disaster_type"
    ELSE IF ProximityRejects(sub, alert) THEN "proximity"
    ELSE IF CityRejects(sub, alert) THEN "city"
    ELSE IF StateRejects(sub, alert) THEN "state"
    ELSE IF CountryRejects(sub, alert) THEN "country"
    ELSE IF AlertLevelRejects(sub, alert) THEN "alert_level"
    ELSE ""

\* (mutant of should_notify_subscriber: a quiet-hours rejection is counted
\* as rate limited too)
MutQuietHoursCountedAsRateLimited(sub, alert, t) ==
    LET early == EarlyReject(sub, alert) IN
    IF early # ""
    THEN [ok |-> FALSE, reason |-> early,
          hourly_count |-> sub.hourly_count, rate_limited |-> 0]
    ELSE IF RateLimitRejects(sub, t)
    THEN [ok |-> FALSE, reason |-> "rate_limit",
          hourly_count |-> sub.hourly_count, rate_limited |-> 1]
    ELSE IF QuietHoursRejects(sub, alert, t)
    THEN [ok |-> FALSE, reason |-> "quiet_hours",
          hourly_count |-> HourlyCountAfterCheck(sub, t), rate_limited |-> 1]
    ELSE [ok |-> TRUE, reason |-> "",
          hourly_count |-> HourlyCountAfterCheck(sub, t), rate_limited |-> 0]

\* should_notify_subscriber(subscription, alert) at clock t: the answer,
\* the predicate that rejected, the subscription's _hourly_count after the
\* call and the increment of notification_stats['rate_limited'].
should_notify_subscriber(sub, alert, t) ==
    LET early == EarlyReject(sub, alert) IN
    IF early # ""
    THEN [ok |-> FALSE, reason |-> early,
          hourly_count |-> sub.hourly_count, rate_limited |-> 0]
    ELSE IF RateLimitRejects(sub, t)
    THEN [ok |-> FALSE, reason |-> "rate_limit",
          hourly_count |-> sub.hourly_count, rate_limited |-> 1]
    ELSE IF QuietHoursRejects(sub, alert, t)
    THEN [ok |-> FALSE, reason |-> "quiet_hours",
          hourly_count |-> HourlyCountAfterCheck(sub, t), rate_limited |-> 0]
    ELSE [ok |-> TRUE, reason |-> "",
          hourly_count |-> HourlyCountAfterCheck(sub, t), rate_limited |-> 0]

\* (mutant of ApplyDecision: the evaluation also clears notification_count)
MutEvaluationClearsCount(sub, d) ==
    [sub EXCEPT !.hourly_count = d.hourly_count, !.notification_count = 0]

\* What should_notify_subscriber writes to the subscription it is given:
\* `subscription._hourly_count = 0` in another hour than last_notified's,
\* nothing else.
ApplyDecision(sub, d) == [sub EXCEPT !.hourly_count = d.hourly_count]

\* --------------------------------------------------- message and senders
\* format_alert_message reads alert.urgency_level, alert.alert_level and
\* alert.formatted_address: it raises AttributeError on an alert without.
format_alert_message_raises(alert) ==
    \/ ~HasAttr(alert, "urgency_level")
    \/ ~HasAttr(alert, "alert_level")
    \/ ~HasAttr(alert, "formatted_address")

Methods == {"email", "sms", "telegram", "webhook", "websocket", "whatsapp"}
\* The contact methods process_alert_notifications has a sender for.
SenderMethods == {"email", "telegram", "sms", "whatsapp", "webhook"}
\* What the transport of one send does: it delivers, it raises, or (the
\* webhook only) the server answers another status than 200.
Transports == {"ok", "raise", "non200"}

\* (mutant of Caught: the exception leaves the sender)
MutUncaught(outcome) == outcome

\* `except Exception as e: ... return False` around a sender's body.
Caught(outcome) == IF outcome = "raise" THEN "false" ELSE outcome

\* Body of send_email / send_telegram / send_sms / send_whatsapp inside
\* the try: format the message, hand it to the transport, count it.
FormattedSendBody(alert, transport) ==
    IF format_alert_message_raises(alert)
    THEN [result |-> "raise", attempted |-> FALSE, counted |-> FALSE]
    ELSE IF transport = "ok"
    THEN [result |-> "true", attempted |-> TRUE, counted |-> TRUE]
    ELSE [result |-> "raise", attempted |-> TRUE, counted |-> FALSE]

\* (mutant of WebhookSendBody: the channel counter is incremented for
\* every answer of the server)
MutWebhookCountsEveryAnswer(alert, transport) ==
    IF transport = "ok"
    THEN [result |-> "true", attempted |-> TRUE, counted |-> TRUE]
    ELSE IF transport = "non200"
    THEN [result |-> "false", attempted |-> TRUE, counted |-> TRUE]
    ELSE [result |-> "raise", attempted |-> TRUE, counted |-> FALSE]

\* Body of send_webhook_notification inside the try: asdict(alert) and
\* requests.post; success is status 200.
WebhookSendBody(alert, transport) ==
    IF transport = "ok"
    THEN [result |-> "true", attempted |-> TRUE, counted |-> TRUE]
    ELSE IF transport = "non200"
    THEN [result |-> "false", attempted |-> TRUE, counted |-> FALSE]
    ELSE [result |-> "raise", attempted |-> TRUE, counted |-> FALSE]

\* The sender of a contact method: the enabled test (none for the
\* webhook), then the body under try/except.  result is "true", "false"
\* or "raise"; attempted says whether the transport was called; counted
\* whether by_channel[method] was incremented.
SendNotification(method, channels, alert, transport) ==
    IF method # "webhook" /\ ~channels[method]
    THEN [result |-> "false", attempted |-> FALSE, counted |-> FALSE]
    ELSE LET body == IF method = "webhook"
                     THEN WebhookSendBody(alert, transport)
                     ELSE FormattedSendBody(alert, transport)
         IN  [body EXCEPT !.result = Caught(body.result)]

\* ------------------------------------------------------------- inputs
Mumbai == <<"M", "u", "m">>
Tokyo == <<"T", "k">>
BandraMumbai == <<"B", "m", "u", "m">>
Point(lon) == [lat |-> 0, lon |-> lon]

SimpleAlert(type, conf, loc, geo) ==
    [kind |-> "simple", disaster_type |-> type, confidence_score |-> conf,
     location |-> loc, geocode |-> geo]

AdvancedAlert(type, conf, loc, urgency, level, lat, lon) ==
    [kind |-> "advanced", disaster_type |-> type, confidence_score |-> conf,
     location |-> loc, geocode |-> None,
     urgency_level |-> urgency, alert_level |-> level,
     latitude |-> lat, longitude |-> lon,
     state |-> None, country |-> None]

\* The alerts handed to process_alert_notifications.
Alerts ==
    { SimpleAlert("flood", 80, BandraMumbai, Some(Point(1))),
      AdvancedAlert("flood", 80, BandraMumbai, "high", "alert", Some(0), Some(1)),
      AdvancedAlert("wildfire", 97, Tokyo, "critical", "emergency", Some(0), Some(20)) }

NoAlert == [kind |-> "none"]

\* The calls of subscribe(name, contact_method, contact_address,
\* preferences): the contact method and the preferences dictionary.
SubscribeRequests ==
    { [method |-> "webhook", preferences |-> [max_per_hour |-> 1]],
      [method |-> "whatsapp",
       preferences |-> [city |-> Some(Mumbai), max_per_hour |-> 2]],
      [method |-> "email",
       preferences |-> [disaster_types |-> Some({"flood"}),
                        latitude |-> Some(0), longitude |-> Some(0),
                        alert_radius_km |-> 10, min_confidence |-> 80,
                        max_per_hour |-> 0, severity |-> "any"]] }

\* Clock readings a run may start at: 21:30 and 23:30 of the first day.
StartTimes == {1290, 1410}

\* ------------------------------------------------------ subscriptions
\* AlertSubscription(subscriber_id, name, contact_method, contact_address)
\* with the dataclass defaults (name, contact_address and created_at are
\* not read by the operations of the model).  hourly_count is the
\* attribute _hourly_count, which every read takes as 0 while it is not
\* set.
NewSubscription(id, method) ==
    [subscriber_id |-> id, contact_method |-> method,
     latitude |-> None, longitude |-> None, alert_radius_km |-> DefaultRadiusKm,
     city |-> None, state |-> None, country |-> None,
     disaster_types |-> None, regions |-> None, countries |-> None,
     min_confidence |-> DefaultMinConfidence, min_urgency |-> "medium",
     alert_levels |-> None,
     max_per_hour |-> DefaultMaxPerHour, quiet_hours |-> None,
     language |-> "english", emergency_override |-> TRUE,
     last_notified |-> 0, notification_count |-> 0, is_active |-> TRUE,
     hourly_count |-> 0]

\* The attributes hasattr(subscription, key) finds on a new subscription.
SubscriptionAttrs == DOMAIN NewSubscription("s1", "email") \ {"hourly_count"}

\* subscribe: setattr for every key of preferences that is an attribute.
ApplyPreferences(sub, preferences) ==
    [k \in DOMAIN sub |->
        IF k \in SubscriptionAttrs /\ k \in DOMAIN preferences
        THEN preferences[k] ELSE sub[k]]

\* The five columns that hold JSON text.
JsonFields == {"disaster_types", "regions", "countries", "alert_levels", "quiet_hours"}

\* The row save_subscription writes.  A JSON text is modelled by the value
\* it encodes: '[]' is the empty list, '{}' the empty dictionary;
\* malformed names the columns whose text is not JSON (none after
\* json.dumps).
SubscriptionRow(sub) ==
    [subscriber_id |-> sub.subscriber_id,
     contact_method |-> sub.contact_method,
     disaster_types |-> IF TruthyList(sub.disaster_types) THEN sub.disaster_types[1] ELSE {},
     regions |-> IF TruthyList(sub.regions) THEN sub.regions[1] ELSE {},
     countries |-> IF TruthyList(sub.countries) THEN sub.countries[1] ELSE {},
     min_confidence |-> sub.min_confidence,
     min_urgency |-> sub.min_urgency,
     alert_levels |-> IF TruthyList(sub.alert_levels) THEN sub.alert_levels[1] ELSE {},
     max_per_hour |-> sub.max_per_hour,
     quiet_hours |-> IF TruthyDict(sub.quiet_hours) THEN sub.quiet_hours[1] ELSE <<>>,
     language |-> sub.language,
     last_notified |-> sub.last_notified,
     notification_count |-> sub.notification_count,
     is_active |-> IF sub.is_active THEN 1 ELSE 0,
     malformed |-> {}]

\* (mutant of save_subscription: the row is not written)
MutSaveSkipped(table, sub) == table

\* save_subscription: INSERT OR REPLACE of the row keyed by the
\* subscription's subscriber_id.
save_subscription(table, sub) ==
    [k \in DOMAIN table \cup {sub.subscriber_id} |->
        IF k = sub.subscriber_id THEN SubscriptionRow(sub) ELSE table[k]]

\* AlertSubscription(**sub_data) for a row whose JSON columns parsed: the
\* columns of the table carry their values, every attribute the table has
\* no column for keeps its dataclass default.  `if sub_data[json_field]`
\* is true of every text json.dumps wrote, '[]' and '{}' included, so a
\* JSON column always comes back as a list or dictionary, never as None.
LoadedSubscription(row) ==
    [NewSubscription(row.subscriber_id, row.contact_method) EXCEPT
        !.disaster_types = Some(row.disaster_types),
        !.regions = Some(row.regions),
        !.countries = Some(row.countries),
        !.min_confidence = row.min_confidence,
        !.min_urgency = row.min_urgency,
        !.alert_levels = Some(row.alert_levels),
        !.max_per_hour = row.max_per_hour,
        !.quiet_hours = Some(row.quiet_hours),
        !.language = row.language,
        !.last_notified = row.last_notified,
        !.notification_count = row.notification_count,
        !.is_active = (row.is_active # 0)]

\* json.loads raises on a column whose text is not JSON.
RowRaises(row) == row.malformed # {}

\* SELECT * FROM subscriptions WHERE is_active = 1: the keys of the rows.
SelectedRows(table) == {k \in DOMAIN table : table[k].is_active = 1}

\* The orders fetchall() may return the selected rows in (the query has
\* no ORDER BY).
RowOrders(table) ==
    LET S == SelectedRows(table)
    IN  {q \in [1..Cardinality(S) -> S] : \A i, j \in DOMAIN q : q[i] = q[j] => i = j}

\* The loop of load_subscriptions over the fetched rows: the exception of
\* a row that does not parse is caught outside the loop, so that row and
\* the rows after it are not loaded.  loaded holds self.subscriptions and
\* the order of its keys.
RECURSIVE LoadRows(_, _, _)
LoadRows(table, rows, loaded) ==
    IF rows = <<>> THEN loaded
    ELSE LET row == table[Head(rows)] IN
         IF RowRaises(row) THEN loaded
         ELSE LoadRows(table, Tail(rows),
                [subs |-> [k \in DOMAIN loaded.subs \cup {row.subscriber_id} |->
                             IF k = row.subscriber_id
                             THEN LoadedSubscription(row) ELSE loaded.subs[k]],
                 order |-> IF row.subscriber_id \in DOMAIN loaded.subs
                           THEN loaded.order
                           ELSE Append(loaded.order, row.subscriber_id)])

\* load_subscriptions on a new instance, the rows fetched in order rows.
load_subscriptions(table, rows) ==
    LoadRows(table, rows, [subs |-> <<>>, order |-> <<>>])

\* -------------------------------------------------------------- state
VARIABLES
    now,                 \* the wall clock, in minutes
    ticks,               \* clock advances so far
    channels,            \* email_enabled, telegram_enabled, sms_enabled, ...
    subscriptions,       \* self.subscriptions: id -> AlertSubscription
    order,               \* insertion order of the keys of self.subscriptions
    db,                  \* table subscriptions of alert_subscriptions.db
    notification_stats,  \* self.notification_stats
    pc,                  \* position of process_alert_notifications
    alert,               \* its argument
    queue,               \* subscriptions its loop has still to visit
    notifications_sent,  \* its local counter
    dispatches,          \* calls of process_alert_notifications so far
    ev,                  \* history: what the last step did
    pass,                \* history: the current call, per subscription
    sent_in_hour,        \* history: id -> hour and number of the successes
                         \* recorded in that hour
    issued,              \* the ids uuid.uuid4() has handed out
    removed,             \* history: the ids unsubscribe returned True for
    threads,             \* threads inside process_alert_notifications at
                         \* the same time: position, alert and registers
    websocket_clients,   \* self.websocket_clients: the connected sockets
    ws,                  \* the running websocket handlers and the position
                         \* and locals of send_websocket_notification
    monitor              \* monitor_and_notify: position, locals, its clock
                         \* in seconds, and the alerts of the alert source

vars == <<now, ticks, channels, subscriptions, order, db, notification_stats,
          pc, alert, queue, notifications_sent, dispatches, ev, pass, sent_in_hour,
          issued, removed, threads, websocket_clients, ws, monitor>>

\* The subscriber ids uuid.uuid4() hands out in a run.
Ids == {"s1", "s2"}

\* decided: what should_notify_subscriber answered for a subscription in
\* this call; attempts: how often a sender was invoked for it.
\* broadcasts: calls of send_websocket_notification in this call.
NoPass == [ids |-> {}, decided |-> [i \in Ids |-> "none"],
           attempts |-> [i \in Ids |-> 0], ok_sends |-> 0, start_total |-> 0,
           broadcasts |-> 0]

\* The threads that may call process_alert_notifications: the monitoring
\* loop and a request handler of the Flask server.
ThreadIds == {"monitor", "api"}
\* No thread is inside a concurrent call.
NoThreads == [th \in ThreadIds |-> [pc |-> "off"]]

\* No websocket handler is running and no broadcast is under way.
\* handlers: the sockets whose websocket_handler waits for the close;
\* gone: the sockets whose handler has ended; calls: broadcasts so far;
\* size0, start: size and members of the set when the loop began;
\* visited, wrote, disconnected: the sockets the loop has reached, those
\* whose send returned and those whose send raised.
NoSockets ==
    [handlers |-> {}, gone |-> {}, pc |-> "off", calls |-> 0, size0 |-> 0,
     start |-> {}, visited |-> {}, wrote |-> {}, disconnected |-> {}]

\* The ids of the alerts the alert source saves in a run.
AlertIds == {"a1", "a2"}

\* monitor_and_notify is not running.  pc: its position; clock: seconds
\* since it was started; last_check, current_time, recent, arg: its
\* locals and the alert of the call under way; started: dispatches
\* before that call; source: the alerts the alert source holds;
\* dispatched: history, how often the loop called
\* process_alert_notifications for an alert.
NoMonitor ==
    [pc |-> "off", clock |-> 0, last_check |-> 0, current_time |-> 0,
     recent |-> <<>>, arg |-> <<>>, started |-> 0, source |-> {},
     dispatched |-> [i \in AlertIds |-> 0]]

\* setup_email, setup_telegram, setup_sms: enabled when the credentials
\* are in the environment (here: all of them or none); setup_whatsapp and
\* setup_webhook always enable.
ChannelConfigs ==
    { [email |-> c, telegram |-> c, sms |-> c, whatsapp |-> TRUE, webhook |-> TRUE] :
      c \in BOOLEAN }

\* State after __init__ on an empty database: the channels follow the
\* environment (credentials present or not; WhatsApp and webhook are
\* always enabled), the statistics are zero.
Init ==
    /\ now \in StartTimes
    /\ ticks = 0
    /\ channels \in ChannelConfigs
    /\ subscriptions = <<>>
    /\ order = <<>>
    /\ db = <<>>
    /\ notification_stats =
         [total_sent |-> 0, failed |-> 0, rate_limited |-> 0,
          by_channel |-> [m \in Methods |-> 0]]
    /\ pc = "idle"
    /\ alert = NoAlert
    /\ queue = <<>>
    /\ notifications_sent = 0
    /\ dispatches = 0
    /\ ev = [op |-> "other"]
    /\ pass = NoPass
    /\ sent_in_hour = [i \in Ids |-> [hour |-> -1, n |-> 0]]
    /\ issued = {}
    /\ removed = {}
    /\ threads = NoThreads
    /\ websocket_clients = {}
    /\ ws = NoSockets
    /\ monitor = NoMonitor

\* Time passes.
Tick ==
    /\ ticks < MaxTicks
    /\ now' = now + TickMinutes
    /\ ticks' = ticks + 1
    /\ ev' = [op |-> "other"]
    /\ UNCHANGED <<channels, subscriptions, order, db, notification_stats, pc,
                   alert, queue, notifications_sent, dispatches, pass, sent_in_hour,
                   issued, removed, threads,
                   websocket_clients, ws, monitor>>

\* subscribe(name, contact_method, contact_address, preferences)
Subscribe(req) ==
    /\ pc = "idle"
    /\ Ids \ issued # {}
    /\ LET id == CHOOSE i \in Ids \ issued : TRUE
           sub == ApplyPreferences(NewSubscription(id, req.method), req.preferences)
       IN  /\ subscriptions' = [k \in DOMAIN subscriptions \cup {id} |->
                                  IF k = id THEN sub ELSE subscriptions[k]]
           /\ db' = save_subscription(db, sub)
           /\ order' = Append(order, id)
           /\ issued' = issued \cup {id}
           /\ ev' = [op |-> "subscribe", id |-> id, method |-> req.method,
                     preferences |-> req.preferences, issued_before |-> issued]
    /\ UNCHANGED <<now, ticks, channels, notification_stats, pc, alert, queue,
                   notifications_sent, dispatches, pass, sent_in_hour, removed,
                   threads,
                   websocket_clients, ws, monitor>>

\* unsubscribe(subscriber_id)
Unsubscribe(id) ==
    /\ pc = "idle"
    /\ IF id \in DOMAIN subscriptions
       THEN /\ db' = save_subscription(db,
                        [subscriptions[id] EXCEPT !.is_active = FALSE])
            /\ subscriptions' = [k \in DOMAIN subscriptions \ {id} |-> subscriptions[k]]
            /\ order' = SelectSeq(order, LAMBDA k : k # id)
            /\ removed' = removed \cup {id}
            /\ ev' = [op |-> "unsubscribe", id |-> id, result |-> TRUE,
                      known |-> TRUE]
       ELSE /\ ev' = [op |-> "unsubscribe", id |-> id, result |-> FALSE,
                      known |-> FALSE]
            /\ UNCHANGED <<db, subscriptions, order, removed>>
    /\ UNCHANGED <<now, ticks, channels, notification_stats, pc, alert,
                   queue, notifications_sent, dispatches, pass, sent_in_hour,
                   issued, threads,
                   websocket_clients, ws, monitor>>

\* process_alert_notifications(alert): entry.
StartDispatch(a) ==
    /\ pc = "idle"
    /\ dispatches < MaxDispatches
    /\ pc' = "loop"
    /\ alert' = a
    /\ queue' = order
    /\ notifications_sent' = 0
    /\ dispatches' = dispatches + 1
    /\ ev' = [op |-> "other"]
    /\ pass' = [NoPass EXCEPT !.ids = DOMAIN subscriptions,
                              !.start_total = notification_stats.total_sent]
    /\ UNCHANGED <<now, ticks, channels, subscriptions, order, db,
                   notification_stats, sent_in_hour, issued, removed, threads,
                   websocket_clients, ws, monitor>>

\* (mutant of ProceedsToSend: the answer of the filter is ignored)
MutAlwaysSend(decision) == TRUE

\* `if self.should_notify_subscriber(subscription, alert):`
ProceedsToSend(decision) == decision.ok

\* One iteration of the loop, up to the eligibility test.
Evaluate ==
    /\ pc = "loop"
    /\ queue # <<>>
    /\ LET id == Head(queue)
           sub == subscriptions[id]
           d == should_notify_subscriber(sub, alert, now)
       IN  /\ subscriptions' = [subscriptions EXCEPT ![id] = ApplyDecision(sub, d)]
           /\ notification_stats' =
                [notification_stats EXCEPT !.rate_limited = @ + d.rate_limited]
           /\ ev' = [op |-> "eval", id |-> id, t |-> now, ok |-> d.ok,
                     reason |-> d.reason, alert |-> alert, before |-> sub,
                     stats_before |-> notification_stats]
           /\ pass' = [pass EXCEPT !.decided[id] = IF d.ok THEN "accept" ELSE "reject"]
           /\ IF ProceedsToSend(d)
              THEN /\ pc' = "send"
                   /\ queue' = queue
              ELSE /\ pc' = "loop"
                   /\ queue' = Tail(queue)
    /\ UNCHANGED <<now, ticks, channels, order, db, alert, notifications_sent,
                   dispatches, sent_in_hour, issued, removed, threads,
                   websocket_clients, ws, monitor>>

\* (mutant of NextQueue: a failed send is tried again)
MutRetryOnFailure(q, success) == IF success THEN Tail(q) ELSE q

\* The loop moves on to the next subscription after a send, whatever
\* the send returned.
NextQueue(q, success) == Tail(q)

\* The update of the subscription after a successful send.
UpdateOnSuccess(sub, t) ==
    [sub EXCEPT !.last_notified = t,
                !.notification_count = @ + 1,
                !.hourly_count = @ + 1]

\* The rest of the iteration: the sender of the contact method (none for
\* a method without sender: success stays False), then the bookkeeping.
\* The clock is read again after the send.
Send(transport) ==
    /\ pc = "send"
    /\ LET id == Head(queue)
           sub == subscriptions[id]
           invoked == sub.contact_method \in SenderMethods
           r == IF invoked
                THEN SendNotification(sub.contact_method, channels, alert, transport)
                ELSE [result |-> "false", attempted |-> FALSE, counted |-> FALSE]
           stats1 == IF r.counted
                     THEN [notification_stats EXCEPT
                             !.by_channel[sub.contact_method] = @ + 1]
                     ELSE notification_stats
           e == [op |-> "send", id |-> id, t |-> now, method |-> sub.contact_method,
                 invoked |-> invoked, result |-> r.result, attempted |-> r.attempted,
                 transport |-> transport, alert |-> alert, before |-> sub,
                 stats_before |-> notification_stats]
           pass1 == [pass EXCEPT !.attempts[id] = @ + (IF invoked THEN 1 ELSE 0)]
       IN  /\ (transport = "non200" => sub.contact_method = "webhook")
           /\ ev' = e
           /\ CASE r.result = "true" ->
                     LET sub1 == UpdateOnSuccess(sub, now) IN
                     /\ subscriptions' = [subscriptions EXCEPT ![id] = sub1]
                     /\ db' = save_subscription(db, sub1)
                     /\ notifications_sent' = notifications_sent + 1
                     /\ notification_stats' = [stats1 EXCEPT !.total_sent = @ + 1]
                     /\ pass' = [pass1 EXCEPT !.ok_sends = @ + 1]
                     /\ sent_in_hour' = [sent_in_hour EXCEPT ![id] =
                           IF @.hour = HourOf(now)
                           THEN [@ EXCEPT !.n = @ + 1]
                           ELSE [hour |-> HourOf(now), n |-> 1]]
                     /\ queue' = NextQueue(queue, TRUE)
                     /\ pc' = "loop"
                     /\ UNCHANGED alert
                [] r.result = "false" ->
                     /\ notification_stats' = [stats1 EXCEPT !.failed = @ + 1]
                     /\ pass' = pass1
                     /\ queue' = NextQueue(queue, FALSE)
                     /\ pc' = "loop"
                     /\ UNCHANGED <<subscriptions, db, notifications_sent,
                                    sent_in_hour, alert>>
                [] OTHER ->
                     \* an exception leaves the sender: it leaves the loop too
                     /\ pc' = "raised"
                     /\ pass' = pass1
                     /\ notification_stats' = stats1
                     /\ UNCHANGED <<subscriptions, db, notifications_sent,
                                    sent_in_hour, alert, queue>>
    /\ UNCHANGED <<now, ticks, channels, order, dispatches, issued, removed,
                   threads,
                   websocket_clients, ws, monitor>>

\* (mutant of BroadcastDue: the broadcast is made only after a send)
MutBroadcastOnlyIfSent(sent) == sent > 0

\* The call of send_websocket_notification after the loop is under no
\* condition.
BroadcastDue(sent) == TRUE

\* After the loop: asyncio.run(self.send_websocket_notification(alert)),
\* with no handler running meanwhile: every connected socket is written
\* to, a send that returns is counted, the sockets whose send raised
\* (raised) leave the set.  With no socket connected nothing is done.
Broadcast ==
    /\ pc = "loop"
    /\ queue = <<>>
    /\ pc' = "print"
    /\ ev' = [op |-> "other"]
    /\ pass' = [pass EXCEPT !.broadcasts =
                  @ + (IF BroadcastDue(notifications_sent) THEN 1 ELSE 0)]
    /\ IF BroadcastDue(notifications_sent)
       THEN \E raised \in SUBSET websocket_clients :
              /\ websocket_clients' = websocket_clients \ raised
              /\ notification_stats' =
                   [notification_stats EXCEPT !.by_channel["websocket"] =
                      @ + Cardinality(websocket_clients \ raised)]
       ELSE UNCHANGED <<websocket_clients, notification_stats>>
    /\ UNCHANGED <<now, ticks, channels, subscriptions, order, db,
                   alert, queue, notifications_sent,
                   dispatches, sent_in_hour, issued, removed, threads, ws, monitor>>

\* The closing print reads alert.formatted_address, then the counter is
\* returned; on an alert without that attribute the print raises
\* AttributeError and the call ends with the exception.
Return ==
    /\ pc \in {"print", "raised"}
    /\ ev' = [op |-> "return",
              kind |-> IF pc = "print" /\ HasAttr(alert, "formatted_address")
                       THEN "returned" ELSE "raised",
              value |-> notifications_sent,
              alert |-> alert,
              ids |-> pass.ids,
              evaluated |-> {i \in Ids : pass.decided[i] # "none"},
              attempts |-> pass.attempts,
              ok_sends |-> pass.ok_sends,
              broadcasts |-> pass.broadcasts,
              total_delta |-> notification_stats.total_sent - pass.start_total]
    /\ pc' = "idle"
    /\ alert' = NoAlert
    /\ queue' = <<>>
    /\ notifications_sent' = 0
    /\ pass' = NoPass
    /\ UNCHANGED <<now, ticks, channels, subscriptions, order, db,
                   notification_stats, dispatches, sent_in_hour, issued, removed,
                   threads,
                   websocket_clients, ws, monitor>>

\* The statistics of a new instance.
NoStats ==
    [total_sent |-> 0, failed |-> 0, rate_limited |-> 0,
     by_channel |-> [m \in Methods |-> 0]]

\* The process ends and a new AlertNotificationSystem() is made on the
\* same database: __init__ loads the subscriptions and zeroes the
\* statistics.
Restart ==
    /\ pc = "idle"
    /\ \E rows \in RowOrders(db) :
          LET l == load_subscriptions(db, rows)
          IN  /\ subscriptions' = l.subs
              /\ order' = l.order
              /\ ev' = [op |-> "load", before |-> subscriptions, rows |-> rows,
                        table |-> db]
    /\ notification_stats' = NoStats
    /\ UNCHANGED <<now, ticks, channels, db, pc, alert, queue, notifications_sent,
                   dispatches, pass, sent_in_hour, issued, removed, threads,
                   websocket_clients, ws, monitor>>

\* The JSON columns another writer of alert_subscriptions.db may damage.
CorruptFields == {"disaster_types", "quiet_hours"}

\* The text of a JSON column of an active row stops being JSON (the file
\* is written by something else than save_subscription).
Corrupt(id, field) ==
    /\ pc = "idle"
    /\ id \in DOMAIN db
    /\ db[id].is_active = 1
    /\ db[id].malformed = {}
    /\ db' = [db EXCEPT ![id].malformed = {field}]
    /\ ev' = [op |-> "other"]
    /\ UNCHANGED <<now, ticks, channels, subscriptions, order, notification_stats,
                   pc, alert, queue, notifications_sent, dispatches, pass,
                   sent_in_hour, issued, removed, threads,
                   websocket_clients, ws, monitor>>

Next ==
    \/ Tick
    \/ \E req \in SubscribeRequests : Subscribe(req)
    \/ \E id \in Ids : Unsubscribe(id)
    \/ \E a \in Alerts : StartDispatch(a)
    \/ Evaluate
    \/ \E transport \in Transports : Send(transport)
    \/ Broadcast
    \/ Return

Spec == Init /\ [][Next]_vars

\* ---------------------------------------------------- one dispatch pass
\* PassSpec: one call of process_alert_notifications, from its entry, over
\* a subscription set made by subscribe (every field below can be given in
\* preferences) or loaded from the database.  The inputs vary one family
\* of fields at a time.
AllEnabled ==
    [email |-> TRUE, telegram |-> TRUE, sms |-> TRUE, whatsapp |-> TRUE, webhook |-> TRUE]
AllChannelConfigs ==
    { [email |-> e, telegram |-> t, sms |-> m, whatsapp |-> TRUE, webhook |-> TRUE] :
      e \in BOOLEAN, t \in BOOLEAN, m \in BOOLEAN }

\* 22:00-06:00 and 23:30-00:30 wrap midnight, 09:00-17:00 does not; the
\* last one leaves 'start' to its default.
QuietWindows ==
    { [start |-> 1320, end |-> 360], [start |-> 1410, end |-> 30],
      [start |-> 540, end |-> 1020], [end |-> 360] }

QuietSubs ==
    { [NewSubscription("s1", "webhook") EXCEPT
         !.quiet_hours = Some(w), !.emergency_override = o] :
      w \in QuietWindows, o \in BOOLEAN }
    \cup { NewSubscription("s1", "webhook") }

GeoSubs ==
    { [NewSubscription("s1", "webhook") EXCEPT
         !.latitude = c[1], !.longitude = c[2], !.alert_radius_km = r,
         !.disaster_types = d] :
      c \in { <<None, None>>, <<Some(0), Some(0)>>, <<Some(0), None>> },
      r \in {10, 12, DefaultRadiusKm},
      d \in { None, Some({"flood"}) } }
    \cup { [NewSubscription("s1", "webhook") EXCEPT !.city = Some(c)] : c \in {Mumbai, Tokyo} }

ChannelSubs ==
    { [NewSubscription("s1", m) EXCEPT !.is_active = a] : m \in Methods, a \in BOOLEAN }

\* A subscription that has or has not used up its hour: last_notified at
\* 21:30 with one or no send counted.
RateSubs ==
    { [NewSubscription("s1", "webhook") EXCEPT
         !.max_per_hour = n, !.last_notified = 1290,
         !.notification_count = c, !.hourly_count = c] :
      n \in {1, 2}, c \in {0, 1} }

\* Every minimum urgency, behind a confidence threshold of 0.5.
UrgencySubs ==
    { [NewSubscription("s1", "webhook") EXCEPT !.min_urgency = u, !.min_confidence = 50] :
      u \in {"low", "medium", "high", "critical"} }

\* Alerts without urgency_level on both sides of 0.7 and 0.9, and alerts
\* that carry each urgency_level at a confidence that derives "low".
UrgencyAlerts ==
    { SimpleAlert("flood", c, BandraMumbai, None) : c \in {60, 70, 71, 90, 91} }
    \cup { AdvancedAlert("flood", 60, Tokyo, u, "alert", None, None) :
           u \in {"low", "medium", "high", "critical"} }

ConfidenceAlerts ==
    { SimpleAlert("flood", c, BandraMumbai, None) : c \in {60, 80, 94, 95, 97} }
    \cup { AdvancedAlert("flood", c, Tokyo, "critical", "emergency", None, None) :
           c \in {80, 95} }

\* Alerts without coordinate attributes whose location the geocoder
\* resolves or not, alerts that carry the attributes with values or null
\* (DisasterAlert.latitude is Optional), and alerts that carry them null
\* while the geocoder resolves their location.
GeoAlerts ==
    { SimpleAlert(t, 80, BandraMumbai, g) :
      t \in {"flood", "wildfire"},
      g \in { None, Some(Point(1)), Some(Point(2)), Some(Point(20)) } }
    \cup { AdvancedAlert("flood", 80, Tokyo, "high", "alert", c[1], c[2]) :
           c \in { <<None, None>>, <<Some(0), Some(1)>>, <<Some(0), Some(2)>>,
                   <<Some(0), Some(20)>>, <<Some(0), None>> } }
    \cup { [AdvancedAlert("flood", 80, Tokyo, "high", "alert", None, None)
              EXCEPT !.geocode = Some(Point(g))] : g \in {1, 20} }

ChannelAlerts ==
    { SimpleAlert("flood", 80, BandraMumbai, None),
      AdvancedAlert("flood", 80, Tokyo, "high", "alert", None, None) }

\* 21:30, 22:00, 23:30 of the first day; 05:30, 06:00, 06:30 of the second.
PassTimes == {1290, 1320, 1410, 1770, 1800, 1830}

PassCases ==
    { [sub |-> s, alert |-> a, t |-> t, channels |-> AllEnabled, second |-> FALSE] :
      s \in QuietSubs, a \in ConfidenceAlerts, t \in PassTimes }
    \cup
    { [sub |-> s, alert |-> a, t |-> 1290, channels |-> AllEnabled, second |-> FALSE] :
      s \in GeoSubs, a \in GeoAlerts }
    \cup
    { [sub |-> s, alert |-> a, t |-> 1290, channels |-> c, second |-> b] :
      s \in ChannelSubs, a \in ChannelAlerts, c \in AllChannelConfigs, b \in BOOLEAN }
    \cup
    { [sub |-> s, alert |-> a, t |-> t, channels |-> AllEnabled, second |-> FALSE] :
      s \in RateSubs, a \in ChannelAlerts, t \in {1290, 1320} }
    \cup
    { [sub |-> s, alert |-> a, t |-> 1290, channels |-> AllEnabled, second |-> FALSE] :
      s \in UrgencySubs, a \in UrgencyAlerts }

PassInit ==
    \E c \in PassCases :
      LET subs == IF c.second
                  THEN [i \in {"s1", "s2"} |->
                          IF i = "s1" THEN c.sub ELSE NewSubscription("s2", "webhook")]
                  ELSE [i \in {"s1"} |-> c.sub]
          ids == IF c.second THEN <<"s1", "s2">> ELSE <<"s1">>
      IN  /\ now = c.t
          /\ ticks = 0
          /\ channels = c.channels
          /\ subscriptions = subs
          /\ order = ids
          /\ db = [i \in DOMAIN subs |-> SubscriptionRow(subs[i])]
          /\ notification_stats =
               [total_sent |-> 0, failed |-> 0, rate_limited |-> 0,
                by_channel |-> [m \in Methods |-> 0]]
          /\ pc = "loop"
          /\ alert = c.alert
          /\ queue = ids
          /\ notifications_sent = 0
          /\ dispatches = 1
          /\ ev = [op |-> "other"]
          /\ pass = [NoPass EXCEPT !.ids = DOMAIN subs]
          /\ sent_in_hour =
               [i \in Ids |->
                  IF i \in DOMAIN subs /\ subs[i].hourly_count > 0
                  THEN [hour |-> HourOf(subs[i].last_notified),
                        n |-> subs[i].hourly_count]
                  ELSE [hour |-> -1, n |-> 0]]
          /\ issued = DOMAIN subs
          /\ removed = {}
          /\ threads = NoThreads
          /\ websocket_clients = {}
          /\ ws = NoSockets
          /\ monitor = NoMonitor

PassNext ==
    \/ Tick
    \/ Evaluate
    \/ \E transport \in Transports : Send(transport)
    \/ Broadcast
    \/ Return

PassSpec == PassInit /\ [][PassNext]_vars

\* ------------------------------------------------- the persistent store
\* StoreSpec: subscribe, unsubscribe, dispatch and restart on one database.
\* The requests set attributes the table has and has not a column for;
\* the third one names subscriber_id among its preferences (api_subscribe
\* passes every key of the request body but the three required ones).
StoreRequests ==
    { [method |-> "webhook", preferences |-> [severity |-> "any"]],
      [method |-> "webhook",
       preferences |-> [latitude |-> Some(0), longitude |-> Some(0),
                        alert_radius_km |-> 10,
                        disaster_types |-> Some({"flood"})]],
      [method |-> "webhook",
       preferences |-> [subscriber_id |-> "s1", max_per_hour |-> 1]] }

StoreAlerts ==
    { AdvancedAlert("flood", 80, BandraMumbai, "high", "alert", Some(0), Some(1)) }

StoreTransports == {"ok", "raise"}

StoreInit ==
    /\ Init
    /\ now = 1290
    /\ channels = AllEnabled

StoreNext ==
    \/ \E req \in StoreRequests : Subscribe(req)
    \/ \E id \in Ids : Unsubscribe(id)
    \/ \E id \in Ids, field \in CorruptFields : Corrupt(id, field)
    \/ Restart
    \/ \E a \in StoreAlerts : StartDispatch(a)
    \/ Evaluate
    \/ \E transport \in StoreTransports : Send(transport)
    \/ Broadcast
    \/ Return

StoreSpec == StoreInit /\ [][StoreNext]_vars

\* ------------------------------------------------- the senders alone
\* SenderSpec: send_sms_notification and send_whatsapp_notification called
\* on their own, at clock readings around the end of an hour and of the
\* day.  ev records what the sender handed to its transport.

\* A text of n characters.
Text(n) == [i \in 1..n |-> "x"]
Ellipsis == <<".", ".", ".">>

\* formatted['message'][:160] + "..." if len(formatted['message']) > 160
\* else formatted['message']
sms_message(message) ==
    IF Len(message) > SmsLimit
    THEN SubSeq(message, 1, SmsLimit) \o Ellipsis
    ELSE message

\* The hour and minute handed to pwk.sendwhatmsg at clock t: now.hour and
\* now.minute + 1.
WhatsappSchedule(t) ==
    [hour |-> TimeOfDay(t) \div MinutesPerHour,
     minute |-> (t % MinutesPerHour) + 1]

\* Lengths of the formatted message: empty, short, and around the limit.
MessageLengths == {0, 100} \cup (158..MaxMessageLen)

\* 21:30; 22:58 to 23:01; 23:58 of the first day to 00:01 of the second.
SenderTimes == {1290} \cup (1378..1381) \cup (1438..1441)

SenderInit ==
    /\ now \in SenderTimes
    /\ ticks = 0
    /\ channels \in AllChannelConfigs
    /\ subscriptions = [i \in Ids |->
                          NewSubscription(i, IF i = "s1" THEN "sms" ELSE "whatsapp")]
    /\ order = <<"s1", "s2">>
    /\ db = [i \in Ids |-> SubscriptionRow(subscriptions[i])]
    /\ notification_stats = NoStats
    /\ pc = "idle"
    /\ alert = NoAlert
    /\ queue = <<>>
    /\ notifications_sent = 0
    /\ dispatches = 0
    /\ ev = [op |-> "other"]
    /\ pass = NoPass
    /\ sent_in_hour = [i \in Ids |-> [hour |-> -1, n |-> 0]]
    /\ issued = Ids
    /\ removed = {}
    /\ threads = NoThreads
    /\ websocket_clients = {}
    /\ ws = NoSockets
    /\ monitor = NoMonitor

\* What a call of a sender leaves alone; the calls stop once the counters
\* of the two channels have reached the bound.
SenderFrame ==
    /\ notification_stats.by_channel["sms"]
         + notification_stats.by_channel["whatsapp"] < MaxSenderCalls
    /\ UNCHANGED <<now, ticks, channels, subscriptions, order, db, pc, alert, queue,
                notifications_sent, dispatches, pass, sent_in_hour, issued,
                removed, threads,
                websocket_clients, ws, monitor>>

\* send_sms_notification(subscription, alert); message is what
\* format_alert_message returns when it returns.
send_sms_notification(a, message, transport) ==
    /\ pc = "idle"
    /\ LET r == SendNotification("sms", channels, a, transport)
       IN  /\ notification_stats' =
                IF r.counted
                THEN [notification_stats EXCEPT !.by_channel["sms"] = @ + 1]
                ELSE notification_stats
           /\ ev' = [op |-> "sms", result |-> r.result, attempted |-> r.attempted,
                     message |-> message,
                     body |-> IF r.attempted THEN Some(sms_message(message)) ELSE None]
    /\ SenderFrame

\* send_whatsapp_notification(subscription, alert)
send_whatsapp_notification(a, transport) ==
    /\ pc = "idle"
    /\ LET r == SendNotification("whatsapp", channels, a, transport)
       IN  /\ notification_stats' =
                IF r.counted
                THEN [notification_stats EXCEPT !.by_channel["whatsapp"] = @ + 1]
                ELSE notification_stats
           /\ ev' = [op |-> "whatsapp", result |-> r.result,
                     attempted |-> r.attempted, t |-> now,
                     schedule |-> IF r.attempted THEN Some(WhatsappSchedule(now))
                                  ELSE None]
    /\ SenderFrame

SenderNext ==
    \/ Tick
    \/ \E a \in ChannelAlerts, n \in MessageLengths, transport \in StoreTransports :
          send_sms_notification(a, Text(n), transport)
    \/ \E a \in ChannelAlerts, transport \in StoreTransports :
          send_whatsapp_notification(a, transport)

SenderSpec == SenderInit /\ [][SenderNext]_vars

\* ------------------------------------------------ the websocket clients
\* SocketSpec: websocket_handler of each connection and
\* send_websocket_notification work on the one set self.websocket_clients.
\* The broadcast yields at `await client.send(payload)` (and runs in
\* another thread than the server's), so handlers run between two
\* iterations of its loop.
Clients == {"c1", "c2", "c3"}

\* ev of a step that completes a broadcast: the sockets whose send raised
\* and whose send returned, the set and the running handlers when the
\* coroutine ended, and whether the loop ended with an exception caught
\* by the outer except.
BroadcastEvent(clients, failed) ==
    [op |-> "broadcast", raised |-> ws.disconnected, wrote |-> ws.wrote,
     clients |-> clients, handlers |-> ws.handlers, failed |-> failed]

SocketInit ==
    /\ Init
    /\ now = 1290
    /\ channels = AllEnabled

\* What the steps of the handlers and of the broadcast leave alone.
SocketFrame ==
    UNCHANGED <<now, ticks, channels, subscriptions, order, db, pc, alert, queue,
                notifications_sent, dispatches, pass, sent_in_hour, issued,
                removed, threads, monitor>>

\* websocket_handler, up to `await websocket.wait_closed()`: a new
\* connection is added to the set.
HandlerConnect(c) ==
    /\ c \notin ws.handlers \cup ws.gone
    /\ websocket_clients' = websocket_clients \cup {c}
    /\ ws' = [ws EXCEPT !.handlers = @ \cup {c}]
    /\ ev' = [op |-> "other"]
    /\ UNCHANGED notification_stats
    /\ SocketFrame

\* websocket_handler, the finally clause after the connection closed:
\* self.websocket_clients.remove(websocket), which raises KeyError when
\* the socket is not in the set.
HandlerClose(c) ==
    /\ c \in ws.handlers
    /\ websocket_clients' = websocket_clients \ {c}
    /\ ws' = [ws EXCEPT !.handlers = @ \ {c}, !.gone = @ \cup {c}]
    /\ ev' = [op |-> "close", client |-> c, keyerror |-> c \notin websocket_clients]
    /\ UNCHANGED notification_stats
    /\ SocketFrame

\* send_websocket_notification, lines 683-694: return at once when no
\* socket is connected, else start the loop over the set.
BroadcastBegin ==
    /\ ws.pc = "off"
    /\ ws.calls < MaxBroadcasts
    /\ IF websocket_clients = {}
       THEN /\ ws' = [ws EXCEPT !.calls = @ + 1, !.wrote = {}, !.disconnected = {},
                                !.visited = {}, !.start = {}, !.size0 = 0]
            /\ ev' = [op |-> "broadcast", raised |-> {}, wrote |-> {},
                      clients |-> {}, handlers |-> ws.handlers, failed |-> FALSE]
       ELSE /\ ws' = [ws EXCEPT !.calls = @ + 1, !.pc = "iter",
                                !.size0 = Cardinality(websocket_clients),
                                !.start = websocket_clients,
                                !.visited = {}, !.wrote = {}, !.disconnected = {}]
            /\ ev' = [op |-> "other"]
    /\ UNCHANGED <<websocket_clients, notification_stats>>
    /\ SocketFrame

\* One iteration of the loop (lines 695-700): the set has the size it
\* had when the loop began, the iterator yields a socket not yet visited
\* and the send returns or raises.
BroadcastWrite(c, outcome) ==
    /\ ws.pc = "iter"
    /\ Cardinality(websocket_clients) = ws.size0
    /\ c \in websocket_clients \ ws.visited
    /\ IF outcome = "ok"
       THEN /\ ws' = [ws EXCEPT !.visited = @ \cup {c}, !.wrote = @ \cup {c}]
            /\ notification_stats' =
                 [notification_stats EXCEPT !.by_channel["websocket"] = @ + 1]
       ELSE /\ ws' = [ws EXCEPT !.visited = @ \cup {c}, !.disconnected = @ \cup {c}]
            /\ UNCHANGED notification_stats
    /\ ev' = [op |-> "other"]
    /\ UNCHANGED websocket_clients
    /\ SocketFrame

\* The iterator is asked for the next socket after the set changed size:
\* RuntimeError (set changed size during iteration), caught by the outer
\* except, which skips line 703.
BroadcastRaise ==
    /\ ws.pc = "iter"
    /\ Cardinality(websocket_clients) # ws.size0
    /\ ws' = [ws EXCEPT !.pc = "off"]
    /\ ev' = BroadcastEvent(websocket_clients, TRUE)
    /\ UNCHANGED <<websocket_clients, notification_stats>>
    /\ SocketFrame

\* The loop ends (every socket of the set was visited, or the set has
\* other members of the same number and the iterator has passed their
\* slots) and line 703 removes the sockets whose send raised.
BroadcastFinish ==
    /\ ws.pc = "iter"
    /\ Cardinality(websocket_clients) = ws.size0
    /\ websocket_clients \subseteq ws.visited \/ websocket_clients # ws.start
    /\ websocket_clients' = websocket_clients \ ws.disconnected
    /\ ws' = [ws EXCEPT !.pc = "off"]
    /\ ev' = BroadcastEvent(websocket_clients \ ws.disconnected, FALSE)
    /\ UNCHANGED notification_stats
    /\ SocketFrame

SocketNext ==
    \/ \E c \in Clients : HandlerConnect(c)
    \/ \E c \in Clients : HandlerClose(c)
    \/ BroadcastBegin
    \/ \E c \in Clients, outcome \in StoreTransports : BroadcastWrite(c, outcome)
    \/ BroadcastRaise
    \/ BroadcastFinish

SocketSpec == SocketInit /\ [][SocketNext]_vars

\* ------------------------------------------------- the monitoring loop
\* MonitorSpec: monitor_and_notify polls the alert source and hands the
\* alerts to process_alert_notifications, whose steps are the actions
\* StartDispatch to Return above.  The loop has its own clock in seconds
\* (monitor.clock); the run is shorter than the granularity the filter
\* reads the clock with, so `now` stays.

\* ai_system.get_active_alerts(hours, min_confidence) at second t: the
\* alerts saved during the last `hours` with at least that confidence.
get_active_alerts(source, t) ==
    {x \in source : /\ x.timestamp > t - FetchWindowSeconds
                    /\ x.alert.confidence_score >= FetchMinConfidence}

\* The orders a list of the alerts of S may have.
AlertOrders(S) ==
    {q \in [1..Cardinality(S) -> S] : \A i, j \in DOMAIN q : q[i] = q[j] => i = j}

MonitorInit ==
    /\ now = 1290
    /\ ticks = 0
    /\ channels = AllEnabled
    /\ subscriptions = [i \in {"s1"} |-> NewSubscription("s1", "webhook")]
    /\ order = <<"s1">>
    /\ db = [i \in {"s1"} |-> SubscriptionRow(NewSubscription("s1", "webhook"))]
    /\ notification_stats = NoStats
    /\ pc = "idle"
    /\ alert = NoAlert
    /\ queue = <<>>
    /\ notifications_sent = 0
    /\ dispatches = 0
    /\ ev = [op |-> "other"]
    /\ pass = NoPass
    /\ sent_in_hour = [i \in Ids |-> [hour |-> -1, n |-> 0]]
    /\ issued = {"s1"}
    /\ removed = {}
    /\ threads = NoThreads
    /\ websocket_clients = {}
    /\ ws = NoSockets
    /\ monitor = [NoMonitor EXCEPT !.pc = "top"]

\* What a step of the loop outside process_alert_notifications leaves
\* alone.
MonitorFrame ==
    /\ ev' = [op |-> "other"]
    /\ UNCHANGED <<now, ticks, channels, subscriptions, order, db,
                   notification_stats, pc, alert, queue, notifications_sent,
                   dispatches, pass, sent_in_hour, issued, removed, threads,
                   websocket_clients, ws>>

\* The alert source saves a new alert, stamped with the current second.
AlertArrives(a) ==
    /\ monitor.pc # "off"
    /\ \E id \in AlertIds :
          /\ \A x \in monitor.source : x.id # id
          /\ id = CHOOSE i \in AlertIds : \A x \in monitor.source : x.id # i
          /\ monitor' = [monitor EXCEPT !.source =
                           @ \cup {[id |-> id, timestamp |-> monitor.clock, alert |-> a]}]
    /\ MonitorFrame

\* Lines 907-910: the clock is read; a fetch is due 30 seconds after
\* last_check.
MonitorSample ==
    /\ monitor.pc = "top"
    /\ monitor' = [monitor EXCEPT
                     !.current_time = monitor.clock,
                     !.pc = IF monitor.clock - monitor.last_check >= PollSeconds
                            THEN "fetch" ELSE "sleep"]
    /\ MonitorFrame

\* Time passes between the reading of the clock and the answer of the
\* alert source.
FetchDelay ==
    /\ monitor.pc = "fetch"
    /\ monitor.clock - monitor.current_time < MaxFetchDelay
    /\ monitor' = [monitor EXCEPT !.clock = @ + 1]
    /\ MonitorFrame

\* Line 913: the alert source answers with the recent alerts, or the call
\* raises (SimplifiedDisasterAI has no get_active_alerts: AttributeError)
\* and the except clause of line 922 ends the iteration.
MonitorFetch(outcome) ==
    /\ monitor.pc = "fetch"
    /\ IF outcome = "ok"
       THEN \E q \in AlertOrders(get_active_alerts(monitor.source, monitor.clock)) :
              monitor' = [monitor EXCEPT !.recent = q, !.pc = "loop"]
       ELSE monitor' = [monitor EXCEPT !.pc = "sleep"]
    /\ MonitorFrame

\* Lines 916-920: the next alert of the list is skipped or handed to
\* process_alert_notifications; after the last one last_check takes the
\* clock reading of line 907.
MonitorLoop ==
    /\ monitor.pc = "loop"
    /\ IF monitor.recent = <<>>
       THEN monitor' = [monitor EXCEPT !.last_check = monitor.current_time,
                                       !.pc = "sleep"]
       ELSE LET x == Head(monitor.recent) IN
            IF x.timestamp > monitor.last_check
            THEN monitor' = [monitor EXCEPT !.pc = "call", !.arg = <<x>>,
                                            !.started = dispatches,
                                            !.recent = Tail(@),
                                            !.dispatched[x.id] = @ + 1]
            ELSE monitor' = [monitor EXCEPT !.recent = Tail(@)]
    /\ MonitorFrame

\* Line 918: the call of process_alert_notifications(alert).
MonitorCall ==
    /\ monitor.pc = "call"
    /\ dispatches = monitor.started
    /\ StartDispatch(monitor.arg[1].alert)

\* The call has ended: the loop goes on with the next alert, or the
\* exception of the call is caught by line 922, which ends the iteration
\* before last_check is set.
MonitorResume ==
    /\ monitor.pc = "call"
    /\ dispatches > monitor.started
    /\ pc = "idle"
    /\ ev.op = "return"
    /\ monitor' = [monitor EXCEPT !.arg = <<>>,
                                  !.pc = IF ev.kind = "returned" THEN "loop"
                                         ELSE "sleep",
                                  !.recent = IF ev.kind = "returned" THEN @ ELSE <<>>]
    /\ MonitorFrame

\* Line 925: time.sleep(10)
MonitorSleep ==
    /\ monitor.pc = "sleep"
    /\ monitor.clock + SleepSeconds <= MaxClock
    /\ monitor' = [monitor EXCEPT !.clock = @ + SleepSeconds, !.pc = "top"]
    /\ MonitorFrame

MonitorNext ==
    \/ \E a \in ChannelAlerts : AlertArrives(a)
    \/ MonitorSample
    \/ FetchDelay
    \/ \E outcome \in StoreTransports : MonitorFetch(outcome)
    \/ MonitorLoop
    \/ MonitorCall
    \/ Evaluate
    \/ \E transport \in StoreTransports : Send(transport)
    \/ Broadcast
    \/ Return
    \/ MonitorResume
    \/ MonitorSleep

MonitorSpec == MonitorInit /\ [][MonitorNext]_vars

\* ------------------------------------------------ two concurrent passes
\* RaceSpec: two threads are inside process_alert_notifications at the
\* same time, each with its own alert, over the one subscription s1.  The
\* class holds no lock: the statements of lines 730-735 of one thread
\* interleave with those of the other, `x += 1` and
\* `x = getattr(...) + 1` being a read followed by a write.
RaceSubs ==
    { [NewSubscription("s1", "webhook") EXCEPT
         !.last_notified = 1290, !.notification_count = c, !.hourly_count = c,
         !.max_per_hour = n] :
      c \in {0, 1, 2}, n \in {2, DefaultMaxPerHour} }

RaceAlerts ==
    { SimpleAlert("flood", 80, BandraMumbai, None),
      AdvancedAlert("flood", 97, Tokyo, "critical", "emergency", None, None) }

RaceInit ==
    \E sub \in RaceSubs, a \in RaceAlerts, b \in RaceAlerts :
        /\ now = 1290
        /\ ticks = 0
        /\ channels = AllEnabled
        /\ subscriptions = [i \in {"s1"} |-> sub]
        /\ order = <<"s1">>
        /\ db = [i \in {"s1"} |-> SubscriptionRow(sub)]
        /\ notification_stats = NoStats
        /\ pc = "idle"
        /\ alert = NoAlert
        /\ queue = <<>>
        /\ notifications_sent = 0
        /\ dispatches = 0
        /\ ev = [op |-> "other"]
        /\ pass = NoPass
        /\ sent_in_hour = [i \in Ids |-> [hour |-> -1, n |-> 0]]
        /\ issued = {"s1"}
        /\ removed = {}
        /\ threads =
             [th \in ThreadIds |->
                [pc |-> "eval", alert |-> IF th = "monitor" THEN a ELSE b,
                 reg |-> 0, sent |-> FALSE,
                 count0 |-> sub.notification_count,
                 hourly0 |-> sub.hourly_count]]
        /\ websocket_clients = {}
        /\ ws = NoSockets
        /\ monitor = NoMonitor

\* What a step of a thread leaves alone.
ThreadFrame ==
    UNCHANGED <<now, ticks, channels, order, pc, alert, queue, notifications_sent,
                dispatches, ev, pass, sent_in_hour, issued, removed,
                websocket_clients, ws, monitor>>

\* Line 713: the eligibility test of the thread's iteration.
ThreadEvaluate(th) ==
    /\ threads[th].pc = "eval"
    /\ LET d == should_notify_subscriber(subscriptions["s1"], threads[th].alert, now)
       IN  /\ subscriptions' =
                [subscriptions EXCEPT !["s1"] = ApplyDecision(subscriptions["s1"], d)]
           /\ notification_stats' =
                [notification_stats EXCEPT !.rate_limited = @ + d.rate_limited]
           /\ threads' = [threads EXCEPT ![th].pc = IF d.ok THEN "send" ELSE "done"]
    /\ UNCHANGED db
    /\ ThreadFrame

\* Lines 714-728 and 737: the sender, and the failed statistic.
ThreadSend(th, transport) ==
    /\ threads[th].pc = "send"
    /\ LET sub == subscriptions["s1"]
           r == SendNotification(sub.contact_method, channels, threads[th].alert,
                                 transport)
           stats1 == IF r.counted
                     THEN [notification_stats EXCEPT
                             !.by_channel[sub.contact_method] = @ + 1]
                     ELSE notification_stats
       IN  IF r.result = "true"
           THEN /\ notification_stats' = stats1
                /\ threads' = [threads EXCEPT ![th].pc = "stamp", ![th].sent = TRUE]
           ELSE /\ notification_stats' = [stats1 EXCEPT !.failed = @ + 1]
                /\ threads' = [threads EXCEPT ![th].pc = "done"]
    /\ UNCHANGED <<subscriptions, db>>
    /\ ThreadFrame

\* Line 730: subscription.last_notified = time.time()
ThreadStamp(th) ==
    /\ threads[th].pc = "stamp"
    /\ subscriptions' = [subscriptions EXCEPT !["s1"].last_notified = now]
    /\ threads' = [threads EXCEPT ![th].pc = "read_count"]
    /\ UNCHANGED <<db, notification_stats>>
    /\ ThreadFrame

\* Lines 731 and 732, first half: the attribute is read.
ThreadRead(th) ==
    /\ threads[th].pc \in {"read_count", "read_hourly"}
    /\ threads' = [threads EXCEPT
                     ![th].reg = IF threads[th].pc = "read_count"
                                 THEN subscriptions["s1"].notification_count
                                 ELSE subscriptions["s1"].hourly_count,
                     ![th].pc = IF threads[th].pc = "read_count"
                                THEN "write_count" ELSE "write_hourly"]
    /\ UNCHANGED <<subscriptions, db, notification_stats>>
    /\ ThreadFrame

\* Lines 731 and 732, second half: the value read plus one is stored.
ThreadWrite(th) ==
    /\ threads[th].pc \in {"write_count", "write_hourly"}
    /\ subscriptions' =
         IF threads[th].pc = "write_count"
         THEN [subscriptions EXCEPT !["s1"].notification_count = threads[th].reg + 1]
         ELSE [subscriptions EXCEPT !["s1"].hourly_count = threads[th].reg + 1]
    /\ threads' = [threads EXCEPT
                     ![th].pc = IF threads[th].pc = "write_count"
                                THEN "read_hourly" ELSE "save"]
    /\ UNCHANGED <<db, notification_stats>>
    /\ ThreadFrame

\* Lines 733-735: the row is saved and total_sent counted.
ThreadSave(th) ==
    /\ threads[th].pc = "save"
    /\ db' = save_subscription(db, subscriptions["s1"])
    /\ notification_stats' = [notification_stats EXCEPT !.total_sent = @ + 1]
    /\ threads' = [threads EXCEPT ![th].pc = "done"]
    /\ UNCHANGED subscriptions
    /\ ThreadFrame

RaceNext ==
    \E th \in ThreadIds :
        \/ ThreadEvaluate(th)
        \/ \E transport \in StoreTransports : ThreadSend(th, transport)
        \/ ThreadStamp(th)
        \/ ThreadRead(th)
        \/ ThreadWrite(th)
        \/ ThreadSave(th)

RaceSpec == RaceInit /\ [][RaceNext]_vars

\* ============================================================== claims
AllAlerts == Alerts \cup ConfidenceAlerts \cup GeoAlerts \cup ChannelAlerts

\* Every predicate but the rate limit lets the alert through.
OtherwiseEligible(sub, a, t) ==
    EarlyReject(sub, a) = "" /\ ~QuietHoursRejects(sub, a, t)

\* Successful sends to a subscription recorded in the current hour.
SentThisHour(id) ==
    IF sent_in_hour[id].hour = HourOf(now) THEN sent_in_hour[id].n ELSE 0

\* C1: for a subscription with max_per_hour = N >= 1, once N sends to it
\* have succeeded in the current clock hour, should_notify_subscriber
\* rejects every alert for it; when no send to it is recorded in the
\* current hour (the hour has changed since), an alert that passes the
\* other predicates is accepted.
RateLimitPerHour ==
    \A id \in DOMAIN subscriptions : \A a \in Alerts :
        LET sub == subscriptions[id]
            d == should_notify_subscriber(sub, a, now)
        IN  sub.max_per_hour >= 1 =>
              /\ (SentThisHour(id) >= sub.max_per_hour => ~d.ok)
              /\ (SentThisHour(id) = 0 /\ OtherwiseEligible(sub, a, now) => d.ok)

\* C1 witness: a subscription whose limit was reached in an earlier hour
\* is accepted by the loop in the current one.
RateLimitReachedThenRolledOver ==
    /\ ev.op = "eval"
    /\ ev.ok
    /\ sent_in_hour[ev.id].n >= ev.before.max_per_hour
    /\ sent_in_hour[ev.id].hour # HourOf(ev.t)
    /\ ev.before.max_per_hour >= 1

\* The quiet-hours window of a subscription, defaults applied.
QuietStart(sub) == DictGet(sub.quiet_hours[1], "start", DefaultQuietStart)
QuietEnd(sub) == DictGet(sub.quiet_hours[1], "end", DefaultQuietEnd)

\* The case of C2: a window that wraps midnight, no emergency override,
\* the time of the evaluation inside the window, every other predicate
\* passed.
InsideWrappingQuietHours ==
    /\ ev.op = "eval"
    /\ TruthyDict(ev.before.quiet_hours)
    /\ ~ev.before.emergency_override
    /\ QuietStart(ev.before) > QuietEnd(ev.before)
    /\ (TimeOfDay(ev.t) >= QuietStart(ev.before) \/ TimeOfDay(ev.t) < QuietEnd(ev.before))
    /\ EarlyReject(ev.before, ev.alert) = ""
    /\ ~RateLimitRejects(ev.before, ev.t)

DispatchReturnsSuccessCount ==
    ev.op = "return" =>
        /\ ev.kind = "returned"
        /\ ev.value = ev.ok_sends
        /\ ev.total_delta = ev.ok_sends

FailedSendCountedOnce ==
    /\ (ev.op = "send" /\ ev.invoked /\ ev.result = "false") =>
          /\ notification_stats.failed = ev.stats_before.failed + 1
          /\ notification_stats.total_sent = ev.stats_before.total_sent
          /\ subscriptions[ev.id].last_notified = ev.before.last_notified
          /\ subscriptions[ev.id].notification_count = ev.before.notification_count
    /\ \A i \in Ids : pass.attempts[i] <= 1

\* C5 witness: the transport of a sender raised and the send failed.
SendFailed ==
    ev.op = "send" /\ ev.invoked /\ ev.attempted /\ ev.result = "false"

\* C6: when should_notify_subscriber rejects, no sender is invoked for the
\* subscription in this call, and failed, total_sent, last_notified and
\* notification_count keep their values.
RejectionHasNoEffect ==
    /\ (ev.op = "eval" /\ ~ev.ok) =>
          /\ notification_stats.failed = ev.stats_before.failed
          /\ notification_stats.total_sent = ev.stats_before.total_sent
          /\ notification_stats.by_channel = ev.stats_before.by_channel
          /\ subscriptions[ev.id].last_notified = ev.before.last_notified
          /\ subscriptions[ev.id].notification_count = ev.before.notification_count
    /\ \A i \in Ids : pass.decided[i] = "reject" => pass.attempts[i] = 0

\* C6 witness: an alert was rejected for its disaster type.
RejectedOnDisasterType ==
    ev.op = "eval" /\ ~ev.ok /\ ev.reason = "disaster_type"

\* C7 (as claimed): every call evaluates every subscription of the active
\* set and returns its count instead of raising.
DispatchNeverRaises ==
    ev.op = "return" => (ev.kind = "returned" /\ ev.evaluated = ev.ids)

\* C8: a sender returns true or false and never raises; on a disabled
\* channel it returns false without calling the transport.
SendersReturnBoolean ==
    (ev.op = "send" /\ ev.invoked) =>
        /\ ev.result \in {"true", "false"}
        /\ (~channels[ev.method] => (ev.result = "false" /\ ~ev.attempted))

\* C8 witness: the transport raised inside a sender, which returned false.
TransportRaisedInsideSender ==
    /\ ev.op = "send"
    /\ ev.invoked
    /\ ev.attempted
    /\ ev.transport = "raise"
    /\ ev.result = "false"

\* C9: should_notify_subscriber is false for an inactive subscription
\* whatever the alert, and no send is ever made for one.
InactiveNeverNotified ==
    /\ \A id \in DOMAIN subscriptions : \A a \in AllAlerts :
          ~subscriptions[id].is_active =>
              ~should_notify_subscriber(subscriptions[id], a, now).ok
    /\ (ev.op = "eval" /\ ~ev.before.is_active) => ~ev.ok
    /\ ev.op = "send" => ev.before.is_active

\* C9 witness: an inactive subscription was rejected for an alert that
\* every other predicate lets through.
InactiveRejected ==
    /\ ev.op = "eval"
    /\ ~ev.before.is_active
    /\ ~ev.ok
    /\ should_notify_subscriber([ev.before EXCEPT !.is_active = TRUE], ev.alert, ev.t).ok

\* The coordinates of an alert as C10 reads them: its own when it carries
\* both, the geocoded location when it carries no coordinate attributes.
OwnCoordinates(a) ==
    /\ HasAttr(a, "latitude")
    /\ HasAttr(a, "longitude")
    /\ ~IsNone(a.latitude)
    /\ ~IsNone(a.longitude)
GeocodedCoordinates(a) ==
    /\ ~HasAttr(a, "latitude")
    /\ a.location # <<>>
    /\ ~IsNone(a.geocode)
Unresolvable(a) ==
    /\ ~OwnCoordinates(a)
    /\ (a.location = <<>> \/ IsNone(a.geocode))
DistanceTo(sub, a) ==
    IF OwnCoordinates(a)
    THEN calculate_distance_km(sub.latitude, sub.longitude, a.latitude, a.longitude)
    ELSE calculate_distance_km(sub.latitude, sub.longitude,
                               Some(a.geocode[1].lat), Some(a.geocode[1].lon))

SameFields(a, b) ==
    \A k \in SubscriptionAttrs :
        IF k = "quiet_hours"
        THEN (~TruthyDict(a[k]) /\ ~TruthyDict(b[k])) \/ a[k] = b[k]
        ELSE IF k \in JsonFields
        THEN (~TruthyList(a[k]) /\ ~TruthyList(b[k])) \/ a[k] = b[k]
        ELSE a[k] = b[k]

\* C11 (as claimed): an active subscription that was saved is, after
\* load_subscriptions on a new instance, in the active set under its id
\* with the same value for every field (SameFields).
SaveLoadRoundTrip ==
    ev.op = "load" =>
        \A k \in DOMAIN ev.before :
            LET sub == ev.before[k] IN
            (/\ sub.is_active
             /\ sub.subscriber_id \in DOMAIN ev.table
             /\ ev.table[sub.subscriber_id] = SubscriptionRow(sub))
            => /\ sub.subscriber_id \in DOMAIN subscriptions
               /\ SameFields(subscriptions[sub.subscriber_id], sub)

\* C12 (as claimed): subscribe returns a fresh id; the active set holds
\* under it a subscription with that subscriber_id, the values of
\* preferences and the defaults elsewhere; the store holds a row keyed by
\* that id; unknown keys of preferences change nothing.
SubscribeAddsRecord ==
    ev.op = "subscribe" =>
        /\ ev.id \notin ev.issued_before
        /\ ev.id \in DOMAIN subscriptions
        /\ subscriptions[ev.id].subscriber_id = ev.id
        /\ \A k \in SubscriptionAttrs \ {"subscriber_id"} :
              subscriptions[ev.id][k] =
                 IF k \in DOMAIN ev.preferences
                 THEN ev.preferences[k]
                 ELSE NewSubscription(ev.id, ev.method)[k]
        /\ ev.id \in DOMAIN db
        /\ db[ev.id].subscriber_id = ev.id
        /\ db[ev.id].is_active = 1

\* C13 (as claimed): unsubscribe returns true exactly for an id of the
\* active set; from then on the id stays out of the active set (also
\* after a load, so that a second unsubscribe returns false), its row
\* stays in the store with is_active = 0, and no dispatch sends to it.
UnsubscribeRemoves ==
    /\ ev.op = "unsubscribe" => (ev.result <=> ev.known)
    /\ \A id \in removed :
          /\ id \notin DOMAIN subscriptions
          /\ id \in DOMAIN db
          /\ db[id].is_active = 0
    /\ ev.op = "send" => ev.id \notin removed

\* C14 (as claimed): after a load every active row of the table is in
\* the active set, a column that is not JSON being loaded as an empty
\* collection.
LoadToleratesMalformedJson ==
    ev.op = "load" =>
        \A k \in SelectedRows(ev.table) :
            /\ k \in DOMAIN subscriptions
            /\ \A f \in ev.table[k].malformed :
                  IF f = "quiet_hours"
                  THEN ~TruthyDict(subscriptions[k][f])
                  ELSE ~TruthyList(subscriptions[k][f])

\* C15: every call of process_alert_notifications makes exactly one
\* websocket broadcast, and makes it after every subscription of the
\* active set has been processed, whatever the sends did.
BroadcastOncePerCall ==
    /\ pass.broadcasts <= 1
    /\ pass.broadcasts = 1 =>
          /\ queue = <<>>
          /\ \A i \in pass.ids : pass.decided[i] # "none"
    /\ ev.op = "return" => ev.broadcasts = 1

\* C15 witness: a call in which every send failed ended after its
\* broadcast.
BroadcastAfterFailedSends ==
    /\ ev.op = "return"
    /\ ev.broadcasts = 1
    /\ ev.ok_sends = 0
    /\ \E i \in ev.ids : ev.attempts[i] = 1

\* C16 (as claimed): when two concurrent passes both sent to the
\* subscription successfully and have finished, notification_count and
\* the hourly counter are each two higher than before.
ConcurrentUpdatesNotLost ==
    (\A th \in ThreadIds : threads[th].pc = "done" /\ threads[th].sent) =>
        \A th \in ThreadIds :
            /\ subscriptions["s1"].notification_count = threads[th].count0 + 2
            /\ subscriptions["s1"].hourly_count = threads[th].hourly0 + 2

\* The half-open window [start, end) of the clock, across midnight when
\* start > end.
InWindow(start, end, cur) ==
    IF start <= end
    THEN start <= cur /\ cur < end
    ELSE cur >= start \/ cur < end

\* An evaluation that reached the quiet-hours test of a subscription with
\* a window.
ReachedQuietHours ==
    /\ ev.op = "eval"
    /\ TruthyDict(ev.before.quiet_hours)
    /\ EarlyReject(ev.before, ev.alert) = ""
    /\ ~RateLimitRejects(ev.before, ev.t)

\* C17 (as claimed): with emergency_override false and confidence below
\* 0.95, the quiet-hours predicate rejects exactly when the time of day
\* is in [start, end), for windows that wrap midnight and windows that do
\* not.
QuietHoursHalfOpenWindow ==
    (/\ ReachedQuietHours
     /\ ~ev.before.emergency_override
     /\ ev.alert.confidence_score < 95)
    => (ev.reason = "quiet_hours"
          <=> InWindow(QuietStart(ev.before), QuietEnd(ev.before), TimeOfDay(ev.t)))

RateLimitedCountsRateLimitOnly ==
    /\ ev.op = "eval" =>
          LET limited == /\ EarlyReject(ev.before, ev.alert) = ""
                         /\ HourOf(ev.t) = HourOf(ev.before.last_notified)
                         /\ ev.before.hourly_count >= ev.before.max_per_hour
          IN  /\ (ev.reason = "rate_limit") <=> limited
              /\ notification_stats.rate_limited =
                    ev.stats_before.rate_limited + (IF limited THEN 1 ELSE 0)
    /\ ev.op = "send" =>
          notification_stats.rate_limited = ev.stats_before.rate_limited

\* C19 witness: a rejection on the rate limit was counted.
RateLimitRejectionCounted ==
    /\ ev.op = "eval"
    /\ ev.reason = "rate_limit"
    /\ notification_stats.rate_limited = ev.stats_before.rate_limited + 1

\* The ranking and the urgency of an alert as C20 states them.
ClaimedRank(u) ==
    CASE u = "low" -> 0 [] u = "medium" -> 1 [] u = "high" -> 2 [] u = "critical" -> 3
ClaimedUrgency(a) ==
    IF HasAttr(a, "urgency_level") THEN a.urgency_level
    ELSE IF a.confidence_score > 90 THEN "high"
    ELSE IF a.confidence_score > 70 THEN "medium"
    ELSE "low"

\* C20: an evaluation that reaches the urgency predicate is rejected by
\* it exactly when the rank of the alert's urgency is below the rank of
\* the subscription's min_urgency.
UrgencyDecision ==
    (/\ ev.op = "eval"
     /\ ev.before.is_active
     /\ ev.alert.confidence_score >= ev.before.min_confidence)
    => (ev.reason = "urgency"
          <=> ClaimedRank(ClaimedUrgency(ev.alert)) < ClaimedRank(ev.before.min_urgency))

\* C20 witness: an alert without urgency_level, of confidence 0.9
\* (medium), was rejected by a subscription asking for high.
DerivedUrgencyRejected ==
    /\ ev.op = "eval"
    /\ ev.reason = "urgency"
    /\ ~HasAttr(ev.alert, "urgency_level")
    /\ ev.alert.confidence_score = 90
    /\ ev.before.min_urgency = "high"

\* C21: should_notify_subscriber changes nothing but the hourly counter
\* of the subscription it is given and the rate_limited statistic: every
\* other field of that subscription, every other subscription, the
\* alert, the stored rows and the total_sent, failed and per-channel
\* statistics are after the evaluation what they were before it.
EvaluationFrame ==
    [][ev'.op = "eval" =>
          /\ DOMAIN subscriptions' = DOMAIN subscriptions
          /\ \A k \in DOMAIN subscriptions \ {ev'.id} :
                subscriptions'[k] = subscriptions[k]
          /\ \A f \in DOMAIN subscriptions[ev'.id] \ {"hourly_count"} :
                subscriptions'[ev'.id][f] = subscriptions[ev'.id][f]
          /\ alert' = alert
          /\ db' = db
          /\ notification_stats'.total_sent = notification_stats.total_sent
          /\ notification_stats'.failed = notification_stats.failed
          /\ notification_stats'.by_channel = notification_stats.by_channel]_vars

\* C21 witness: an evaluation in a new hour cleared the hourly counter of
\* a subscription that had been notified.
EvaluationResetCounter ==
    /\ ev.op = "eval"
    /\ ev.before.hourly_count = 1
    /\ ev.before.notification_count = 1
    /\ subscriptions[ev.id].hourly_count = 0

\* The alert carries no usable coordinates (the attributes are absent or
\* one of them is null) and the geocoder resolves its location.
OnlyGeocodable(a) ==
    /\ ~OwnCoordinates(a)
    /\ a.location # <<>>
    /\ ~IsNone(a.geocode)

\* C22 (as claimed): for a subscription with latitude and longitude, an
\* alert without usable coordinates whose location can be geocoded is
\* rejected when the geocoded point is farther than alert_radius_km.
GeocodedFallbackDecision ==
    (/\ ev.op = "eval"
     /\ ~IsNone(ev.before.latitude)
     /\ ~IsNone(ev.before.longitude)
     /\ OnlyGeocodable(ev.alert)
     /\ calculate_distance_km(ev.before.latitude, ev.before.longitude,
                              Some(ev.alert.geocode[1].lat),
                              Some(ev.alert.geocode[1].lon))
           > ev.before.alert_radius_km)
    => ~ev.ok

\* C23 (as claimed): the body send_sms_notification hands to the gateway
\* is never longer than 160 characters.
SmsBodyWithinLimit ==
    (ev.op = "sms" /\ ev.attempted) => Len(ev.body[1]) <= SmsLimit

\* C24 (as claimed): send_whatsapp_notification schedules the message for
\* an hour in 0..23 and a minute in 0..59 that are the time of day one
\* minute after the current one.
WhatsappScheduledNextMinute ==
    (ev.op = "whatsapp" /\ ev.attempted) =>
        LET s == ev.schedule[1] IN
        /\ s.hour \in 0..23
        /\ s.minute \in 0..59
        /\ s.hour * MinutesPerHour + s.minute = (TimeOfDay(ev.t) + 1) % MinutesPerDay

\* C25 (as claimed): when send_websocket_notification has completed,
\* every socket whose send raised is out of the connection set and every
\* socket whose send returned and whose handler is still running is in
\* it, handlers connecting and disconnecting meanwhile or not; and the
\* remove of a handler never raises.
BroadcastPrunesFailedClients ==
    /\ ev.op = "broadcast" =>
          /\ ev.raised \cap ev.clients = {}
          /\ (ev.wrote \cap ev.handlers) \subseteq ev.clients
    /\ ev.op = "close" => ~ev.keyerror

\* C26 (as claimed): one instance dispatching alerts one after another:
\* the successful sends to a subscription recorded in the current clock
\* hour never outnumber its max_per_hour, whatever that value, 0
\* included.
SendsPerHourWithinLimit ==
    \A id \in DOMAIN subscriptions :
        SentThisHour(id) <= subscriptions[id].max_per_hour

\* C27 (as claimed): once the sends to a subscription recorded in the
\* current clock hour have reached its max_per_hour, every further alert
\* for it in that hour is rejected, also when the subscriptions were
\* loaded again from the database in between.
RateLimitSurvivesRestart ==
    (/\ ev.op = "eval"
     /\ sent_in_hour[ev.id].hour = HourOf(ev.t)
     /\ sent_in_hour[ev.id].n >= 1
     /\ sent_in_hour[ev.id].n >= ev.before.max_per_hour)
    => ~ev.ok

\* C28: total_sent is the sum of the channel counters of email, sms,
\* telegram, webhook and whatsapp, after every dispatch (and between the
\* iterations of one).
TotalSentIsSumOfChannels ==
    LET c == notification_stats.by_channel IN
    notification_stats.total_sent =
        c["email"] + c["sms"] + c["telegram"] + c["webhook"] + c["whatsapp"]

\* C28 witness: a second dispatch has returned, sends over two channels
\* have succeeded and one has failed.
TwoChannelsSentOneFailed ==
    /\ ev.op = "return"
    /\ dispatches = 2
    /\ notification_stats.by_channel["webhook"] >= 1
    /\ notification_stats.by_channel["whatsapp"] >= 1
    /\ notification_stats.failed >= 1

\* C29 (as claimed): over all its polling iterations monitor_and_notify
\* calls process_alert_notifications at most once for an alert of the
\* alert source.
DispatchedAtMostOnce ==
    \A id \in AlertIds : monitor.dispatched[id] <= 1

\* C30 (as claimed): for every contact method, the failed statistic
\* grows by one in a step exactly when a channel sender was invoked for
\* the subscription and returned false, and by nothing otherwise.
FailedCountsSenderFailures ==
    /\ ev.op = "send" =>
          notification_stats.failed - ev.stats_before.failed =
             (IF ev.invoked /\ ev.result = "false" THEN 1 ELSE 0)
    /\ ev.op = "eval" => notification_stats.failed = ev.stats_before.failed

====
